---- MODULE Spec2Model ----
(***************************************************************************)
(* Model of the market-data relay of FrontEnd/application.py.              *)
(*                                                                         *)
(* Program state: the module globals ws_client and current_subs, the       *)
(* WebSocketClient objects created by polygon_thread, the position of each *)
(* polygon_thread, and the position and locals of the socket.io handler    *)
(* coroutines subscribe_one / unsubscribe_one.  Handlers run on one event  *)
(* loop and interleave with each other only at their await points; every   *)
(* polygon_thread is an OS thread and interleaves with the handlers at     *)
(* each access of a global.  A handler position "Lnnn" is the source line  *)
(* of application.py the handler runs next.                                *)
(*                                                                         *)
(* History variables (not program state): connected and desired describe   *)
(* the viewers, out records the external call made by the last step,       *)
(* nevents counts the external events (commands, vendor messages,          *)
(* disconnects, vendor failures) and faulted remembers a vendor failure.   *)
(* The vendor library is outside the repository: its calls are modelled by *)
(* their effect on the client object (cstate, csubs) or by raising.        *)
(*                                                                         *)
(* The functions that do not touch the relay's globals are modelled each   *)
(* with a variable of its own and a specification of its own, in which the *)
(* relay stays in its initial state: tu holds calls of to_iso_utc and      *)
(* to_iso_et (FrontEnd/src/time_utils.py), hm the for loop of handle_msg   *)
(* message by message, bf one run of backfill_dates                        *)
(* (MagikarpCDK/scripts/backfill-missing-data.py).                         *)
(***************************************************************************)
EXTENDS Integers, Sequences, FiniteSets, TLC

\* Bounds of the exploration.
MaxThreads == 2
MaxEvents == 3

Sessions == {"s1", "s2"}
Symbols == {"AAPL", "MSFT"}
Clients == 1..MaxThreads
None == 0

VARIABLES
    ws_client,      \* global ws_client: None or the registered WebSocketClient
    current_subs,   \* global current_subs: list of symbols
    cstate,         \* per WebSocketClient: lifecycle of its vendor connection
    csubs,          \* per WebSocketClient: symbols subscribed at the vendor
    tpc,            \* per polygon_thread: next line to run
    tsub,           \* per polygon_thread: its subs argument (one symbol)
    tsid,           \* per polygon_thread: its sid argument
    pc,             \* per session: position of its running handler
    arg,            \* per session: sub_to_add / sub_to_remove of the handler
    client,         \* per session: the handler's local "client"
    subs_list,      \* per session: unsubscribe_one's local "subs_list"
    emitTasks,      \* background tasks started by handle_msg, not yet run
    connected,      \* history: sessions whose socket is still connected
    desired,        \* history: per session, the symbols acknowledged as
                    \* subscribed and not unsubscribed by it since
    nevents,        \* history: external events so far (commands, vendor
                    \* messages, disconnects, vendor failures)
    faulted,        \* history: some vendor call has raised
    out,            \* history: the external call made by the last step
    tu,             \* time_utils: one raw timestamp and what the functions return
    hm,             \* handle_msg: the batch being processed and its emit tasks
    bf              \* backfill_dates: the locals of one run

\* The relay's variables, and the variables of the separately modelled functions.
relayVars == <<ws_client, current_subs, cstate, csubs, tpc, tsub, tsid, pc, arg,
               client, subs_list, emitTasks, connected, desired, nevents, faulted,
               out>>
pureVars == <<tu, hm, bf>>
notTu == <<relayVars, hm, bf>>
notHm == <<relayVars, tu, bf>>
notBf == <<relayVars, tu, hm>>

vars == <<relayVars, pureVars>>

progVars == <<ws_client, current_subs, cstate, csubs, tpc, tsub, tsid>>

----------------------------------------------------------------------------
\* Helpers

Range(s) == {s[i] : i \in 1..Len(s)}

\* list.remove(x): drops the first occurrence of x.
RECURSIVE ListRemove(_, _)
ListRemove(s, x) ==
    IF s = <<>> THEN <<>>
    ELSE IF Head(s) = x THEN Tail(s)
    ELSE <<Head(s)>> \o ListRemove(Tail(s), x)

\* The record of one external call.
Call(op, sid, sym, c, reason, to) ==
    [op |-> op, sid |-> sid, sym |-> sym, client |-> c, reason |-> reason, to |-> to]

Quiet == Call("none", "", "", None, "", {})

\* get_subs: the status endpoint.
get_subs == [subs |-> current_subs]

\* Threads not yet started.
FreeThreads == {t \in Clients : tpc[t] = "unborn"}

\* Positions inside a handler segment that holds the event loop: no other
\* coroutine runs until the handler reaches an await or returns.
MidSegment == {"L121", "L135", "L138", "L166", "L173"}
LoopBusy == \E s \in Sessions : pc[s] \in MidSegment

\* A handler returns: its locals are gone.
Return(s) ==
    /\ pc' = [pc EXCEPT ![s] = "idle"]
    /\ arg' = [arg EXCEPT ![s] = ""]
    /\ client' = [client EXCEPT ![s] = None]

\* One more external event, within the budget.
Event ==
    /\ nevents < MaxEvents
    /\ nevents' = nevents + 1

\* sio.emit("subscribed", ..., to=sid) reaches the session if it is connected.
Acked(s, x) == [desired EXCEPT ![s] = IF connected[s] THEN @ \cup {x} ELSE @]

----------------------------------------------------------------------------
\* The relay after the module is loaded (L24-26).
RelayInit ==
    /\ ws_client = None
    /\ current_subs = <<>>
    /\ cstate = [c \in Clients |-> "absent"]
    /\ csubs = [c \in Clients |-> {}]
    /\ tpc = [t \in Clients |-> "unborn"]
    /\ tsub = [t \in Clients |-> ""]
    /\ tsid = [t \in Clients |-> ""]
    /\ pc = [s \in Sessions |-> "idle"]
    /\ arg = [s \in Sessions |-> ""]
    /\ client = [s \in Sessions |-> None]
    /\ subs_list = [s \in Sessions |-> <<>>]
    /\ emitTasks = {}
    /\ connected = [s \in Sessions |-> TRUE]
    /\ desired = [s \in Sessions |-> {}]
    /\ nevents = 0
    /\ faulted = FALSE
    /\ out = Quiet

\* No call of a separately modelled function is in progress.
NotCalled == [pc |-> "none"]
PureIdle == tu = NotCalled /\ hm = NotCalled /\ bf = NotCalled

Init == RelayInit /\ PureIdle

----------------------------------------------------------------------------
\* polygon_thread (an OS thread: its steps interleave with everything)

\* L91-98: ws = WebSocketClient(..., subscriptions=subs); ws_client = ws
ThreadRegister(t) ==
    /\ tpc[t] = "L91"
    /\ cstate' = [cstate EXCEPT ![t] = "constructed"]
    /\ csubs' = [csubs EXCEPT ![t] = {tsub[t]}]
    /\ ws_client' = t
    /\ tpc' = [tpc EXCEPT ![t] = "L99"]
    /\ out' = Quiet
    /\ UNCHANGED <<pureVars, current_subs, tsub, tsid, pc, arg, client, subs_list,
                   emitTasks, connected, desired, nevents, faulted>>

\* L99: current_subs = list(subs)
ThreadSetSubs(t) ==
    /\ tpc[t] = "L99"
    /\ current_subs' = <<tsub[t]>>
    /\ tpc' = [tpc EXCEPT ![t] = "L102"]
    /\ out' = Quiet
    /\ UNCHANGED <<pureVars, ws_client, cstate, csubs, tsub, tsid, pc, arg, client,
                   subs_list, emitTasks, connected, desired, nevents, faulted>>

\* L102: ws.run(handle_msg) connects and serves.  A close() that came before
\* the connection existed found no websocket to close, so the client still
\* opens its connection.
ThreadRun(t) ==
    /\ tpc[t] = "L102"
    /\ cstate' = [cstate EXCEPT ![t] = "open"]
    /\ tpc' = [tpc EXCEPT ![t] = "running"]
    /\ tsub' = [tsub EXCEPT ![t] = ""]
    /\ tsid' = [tsid EXCEPT ![t] = ""]
    /\ out' = Call("up_connect", tsid[t], tsub[t], t, "", {})
    /\ UNCHANGED <<pureVars, ws_client, current_subs, csubs, pc, arg, client,
                   subs_list, emitTasks, connected, desired, nevents, faulted>>

\* L102: ws.run raises (the connection cannot be opened); the thread dies
\* with ws_client and current_subs left as they are.
ThreadRunFail(t) ==
    /\ tpc[t] = "L102"
    /\ Event
    /\ faulted' = TRUE
    /\ cstate' = [cstate EXCEPT ![t] = "failed"]
    /\ tpc' = [tpc EXCEPT ![t] = "dead"]
    /\ tsub' = [tsub EXCEPT ![t] = ""]
    /\ tsid' = [tsid EXCEPT ![t] = ""]
    /\ out' = Call("up_connect", tsid[t], tsub[t], t, "raised", {})
    /\ UNCHANGED <<pureVars, ws_client, current_subs, csubs, pc, arg, client,
                   subs_list, emitTasks, connected, desired>>

\* handle_msg, L47-88, called by ws.run in the thread: a vendor message for a
\* symbol subscribed on the open connection; L88 hands the emit to a
\* background task.
HandleMsg(c, x) ==
    /\ cstate[c] = "open"
    /\ x \in csubs[c]
    /\ x \notin emitTasks
    /\ Event
    /\ emitTasks' = emitTasks \cup {x}
    /\ out' = Quiet
    /\ UNCHANGED <<pureVars, progVars, pc, arg, client, subs_list, connected, desired,
                   faulted>>

\* _emit_polygon_data, L31-33: sio.emit("polygon_data", data) without "to":
\* every connected session receives it.
EmitPolygonData(x) ==
    /\ ~LoopBusy
    /\ x \in emitTasks
    /\ emitTasks' = emitTasks \ {x}
    /\ out' = Call("polygon_data", "", x, None, "", {s \in Sessions : connected[s]})
    /\ UNCHANGED <<pureVars, progVars, pc, arg, client, subs_list, connected, desired,
                   nevents, faulted>>

----------------------------------------------------------------------------
\* subscribe_one (no await before its last statement: one loop segment)

\* L114-118: the command arrives; client = ws_client
SubscribeOne(s, x) ==
    /\ ~LoopBusy
    /\ connected[s]
    /\ pc[s] = "idle"
    /\ ws_client = None => FreeThreads # {}
    /\ Event
    /\ arg' = [arg EXCEPT ![s] = x]
    /\ client' = [client EXCEPT ![s] = ws_client]
    /\ pc' = [pc EXCEPT ![s] = IF ws_client = None THEN "L121" ELSE "L135"]
    /\ out' = Quiet
    /\ UNCHANGED <<pureVars, progVars, subs_list, emitTasks, connected, desired, faulted>>

\* L121-132: no client: current_subs = [sub_to_add]; start polygon_thread;
\* emit "subscribed" (without reason) to the requester.
SubNew(s) ==
    /\ pc[s] = "L121"
    /\ LET t == CHOOSE u \in FreeThreads : \A v \in FreeThreads : u <= v IN
        /\ current_subs' = <<arg[s]>>
        /\ tpc' = [tpc EXCEPT ![t] = "L91"]
        /\ tsub' = [tsub EXCEPT ![t] = arg[s]]
        /\ tsid' = [tsid EXCEPT ![t] = s]
    /\ out' = Call("subscribed", s, arg[s], None, "", {s})
    /\ desired' = Acked(s, arg[s])
    /\ Return(s)
    /\ UNCHANGED <<pureVars, ws_client, cstate, csubs, subs_list, emitTasks, connected,
                   nevents, faulted>>

\* L135 false, L143-147: the symbol is already listed; only the acknowledgement.
SubHeld(s) ==
    /\ pc[s] = "L135"
    /\ arg[s] \in Range(current_subs)
    /\ out' = Call("subscribed", s, arg[s], client[s], "added to existing connection", {s})
    /\ desired' = Acked(s, arg[s])
    /\ Return(s)
    /\ UNCHANGED <<pureVars, progVars, subs_list, emitTasks, connected, nevents, faulted>>

\* L135-137: client.subscribe(sub_to_add) returns.
SubCall(s) ==
    /\ pc[s] = "L135"
    /\ arg[s] \notin Range(current_subs)
    /\ csubs' = [csubs EXCEPT ![client[s]] = @ \cup {arg[s]}]
    /\ out' = Call("up_subscribe", s, arg[s], client[s], "", {})
    /\ pc' = [pc EXCEPT ![s] = "L138"]
    /\ UNCHANGED <<pureVars, ws_client, current_subs, cstate, tpc, tsub, tsid, arg, client,
                   subs_list, emitTasks, connected, desired, nevents, faulted>>

\* L135-141: client.subscribe(sub_to_add) raises: print and return.
SubCallFail(s) ==
    /\ pc[s] = "L135"
    /\ arg[s] \notin Range(current_subs)
    /\ Event
    /\ faulted' = TRUE
    /\ out' = Call("up_subscribe", s, arg[s], client[s], "raised", {})
    /\ Return(s)
    /\ UNCHANGED <<pureVars, progVars, subs_list, emitTasks, connected, desired>>

\* L138, L143-147: current_subs.append(sub_to_add); emit "subscribed".
SubAppend(s) ==
    /\ pc[s] = "L138"
    /\ current_subs' = Append(current_subs, arg[s])
    /\ out' = Call("subscribed", s, arg[s], client[s], "added to existing connection", {s})
    /\ desired' = Acked(s, arg[s])
    /\ Return(s)
    /\ UNCHANGED <<pureVars, ws_client, cstate, csubs, tpc, tsub, tsid, subs_list,
                   emitTasks, connected, nevents, faulted>>

----------------------------------------------------------------------------
\* unsubscribe_one (segments: L152-182, then L185-186, then the end of close)

\* L152-157 with a client: the command arrives; client = ws_client
UnsubscribeOne(s, x) ==
    /\ ~LoopBusy
    /\ connected[s]
    /\ pc[s] = "idle"
    /\ ws_client # None
    /\ Event
    /\ arg' = [arg EXCEPT ![s] = x]
    /\ client' = [client EXCEPT ![s] = ws_client]
    /\ pc' = [pc EXCEPT ![s] = "L166"]
    /\ out' = Quiet
    /\ UNCHANGED <<pureVars, progVars, subs_list, emitTasks, connected, desired, faulted>>

\* L152-163 without a client: emit "unsubscribed" with "no active client".
UnsubscribeNoClient(s, x) ==
    /\ ~LoopBusy
    /\ connected[s]
    /\ pc[s] = "idle"
    /\ ws_client = None
    /\ Event
    /\ desired' = [desired EXCEPT ![s] = @ \ {x}]
    /\ out' = Call("unsubscribed", s, "", None, "no active client", {s})
    /\ UNCHANGED <<pureVars, progVars, pc, arg, client, subs_list, emitTasks, connected,
                   faulted>>

\* L166-172: client.unsubscribe(sub_to_remove) returns; subs_list = current_subs
UnsubCall(s) ==
    /\ pc[s] = "L166"
    /\ csubs' = [csubs EXCEPT ![client[s]] = @ \ {arg[s]}]
    /\ subs_list' = [subs_list EXCEPT ![s] = current_subs]
    /\ out' = Call("up_unsubscribe", s, arg[s], client[s], "", {})
    /\ pc' = [pc EXCEPT ![s] = "L173"]
    /\ UNCHANGED <<pureVars, ws_client, current_subs, cstate, tpc, tsub, tsid, arg, client,
                   emitTasks, connected, desired, nevents, faulted>>

\* L166-172: client.unsubscribe raises; the exception is printed and dropped.
UnsubCallFail(s) ==
    /\ pc[s] = "L166"
    /\ Event
    /\ faulted' = TRUE
    /\ subs_list' = [subs_list EXCEPT ![s] = current_subs]
    /\ out' = Call("up_unsubscribe", s, arg[s], client[s], "raised", {})
    /\ pc' = [pc EXCEPT ![s] = "L173"]
    /\ UNCHANGED <<pureVars, progVars, arg, client, emitTasks, connected, desired>>

\* L173-182 as they would be with the "to=sid" of L181 left out: the
\* acknowledgment is broadcast.  Not part of Next.
UnsubRemoveToAll(s) ==
    /\ pc[s] = "L173"
    /\ current_subs' = IF arg[s] \in Range(subs_list[s])
                       THEN ListRemove(subs_list[s], arg[s])
                       ELSE current_subs
    /\ subs_list' = [subs_list EXCEPT ![s] = <<>>]
    /\ out' = Call("unsubscribed", s, arg[s], client[s], "manual unsubscribe",
                   {r \in Sessions : connected[r]})
    /\ desired' = [desired EXCEPT ![s] = @ \ {arg[s]}]
    /\ arg' = [arg EXCEPT ![s] = ""]
    /\ pc' = [pc EXCEPT ![s] = "L185"]
    /\ UNCHANGED <<pureVars, ws_client, cstate, csubs, tpc, tsub, tsid, client,
                   emitTasks, connected, nevents, faulted>>

\* L173-182: remove from subs_list and rebind current_subs; emit
\* "unsubscribed" and await it.  sub_to_remove is not read again.
UnsubRemove(s) ==
    /\ pc[s] = "L173"
    /\ current_subs' = IF arg[s] \in Range(subs_list[s])
                       THEN ListRemove(subs_list[s], arg[s])
                       ELSE current_subs
    /\ subs_list' = [subs_list EXCEPT ![s] = <<>>]
    /\ out' = Call("unsubscribed", s, arg[s], client[s], "manual unsubscribe", {s})
    /\ desired' = [desired EXCEPT ![s] = @ \ {arg[s]}]
    /\ arg' = [arg EXCEPT ![s] = ""]
    /\ pc' = [pc EXCEPT ![s] = "L185"]
    /\ UNCHANGED <<pureVars, ws_client, cstate, csubs, tpc, tsub, tsid, client,
                   emitTasks, connected, nevents, faulted>>

\* L185 false: symbols remain; the handler returns.
UnsubKeep(s) ==
    /\ ~LoopBusy
    /\ pc[s] = "L185"
    /\ current_subs # <<>>
    /\ Return(s)
    /\ out' = Quiet
    /\ UNCHANGED <<pureVars, progVars, subs_list, emitTasks, connected, desired, nevents,
                   faulted>>

\* L185-186: current_subs is empty: client.close() is called and awaited.
\* Only an open connection has a websocket to close.
UnsubClose(s) ==
    /\ ~LoopBusy
    /\ pc[s] = "L185"
    /\ current_subs = <<>>
    /\ cstate' = [cstate EXCEPT ![client[s]] = IF @ = "open" THEN "closing" ELSE @]
    /\ out' = Call("up_close", s, "", client[s], "", {})
    /\ pc' = [pc EXCEPT ![s] = "L186"]
    /\ UNCHANGED <<pureVars, ws_client, current_subs, csubs, tpc, tsub, tsid, arg, client,
                   subs_list, emitTasks, connected, desired, nevents, faulted>>

\* L186: the awaited close() completes; ws.run returns in the thread.
CloseDone(s) ==
    /\ ~LoopBusy
    /\ pc[s] = "L186"
    /\ cstate' = [cstate EXCEPT ![client[s]] = IF @ = "closing" THEN "closed" ELSE @]
    /\ tpc' = [tpc EXCEPT ![client[s]] = IF cstate[client[s]] = "closing" THEN "dead" ELSE @]
    /\ out' = Quiet
    /\ Return(s)
    /\ UNCHANGED <<pureVars, ws_client, current_subs, csubs, tsub, tsid, subs_list,
                   emitTasks, connected, desired, nevents, faulted>>

----------------------------------------------------------------------------
\* The socket of a session goes away.  application.py registers no
\* "disconnect" handler (its only handlers are subscribe_one and
\* unsubscribe_one): no program state changes.
Disconnect(s) ==
    /\ ~LoopBusy
    /\ connected[s]
    /\ Event
    /\ connected' = [connected EXCEPT ![s] = FALSE]
    /\ desired' = [desired EXCEPT ![s] = {}]
    /\ out' = Quiet
    /\ UNCHANGED <<pureVars, progVars, pc, arg, client, subs_list, emitTasks, faulted>>

----------------------------------------------------------------------------
Next ==
    \/ \E t \in Clients : ThreadRegister(t)
    \/ \E t \in Clients : ThreadSetSubs(t)
    \/ \E t \in Clients : ThreadRun(t)
    \/ \E t \in Clients : ThreadRunFail(t)
    \/ \E c \in Clients, x \in Symbols : HandleMsg(c, x)
    \/ \E x \in Symbols : EmitPolygonData(x)
    \/ \E s \in Sessions, x \in Symbols : SubscribeOne(s, x)
    \/ \E s \in Sessions : SubNew(s)
    \/ \E s \in Sessions : SubHeld(s)
    \/ \E s \in Sessions : SubCall(s)
    \/ \E s \in Sessions : SubCallFail(s)
    \/ \E s \in Sessions : SubAppend(s)
    \/ \E s \in Sessions, x \in Symbols : UnsubscribeOne(s, x)
    \/ \E s \in Sessions, x \in Symbols : UnsubscribeNoClient(s, x)
    \/ \E s \in Sessions : UnsubCall(s)
    \/ \E s \in Sessions : UnsubCallFail(s)
    \/ \E s \in Sessions : UnsubRemove(s)
    \/ \E s \in Sessions : UnsubKeep(s)
    \/ \E s \in Sessions : UnsubClose(s)
    \/ \E s \in Sessions : CloseDone(s)
    \/ \E s \in Sessions : Disconnect(s)

Spec == Init /\ [][Next]_vars

----------------------------------------------------------------------------
\* Vocabulary of the properties

\* The union of all sessions' desired-symbol sets.
UnionDesired == UNION {desired[s] : s \in Sessions}

\* The vendor connections that are alive, and what they carry.
LiveClients == {c \in Clients : cstate[c] = "open"}
UpstreamActive == UNION {csubs[c] : c \in LiveClients}

\* Nothing is in flight: no handler is running or suspended, every started
\* polygon_thread has reached ws.run, no emit task is pending.
Settled ==
    /\ \A s \in Sessions : pc[s] = "idle"
    /\ \A t \in Clients : tpc[t] \in {"unborn", "running", "dead"}
    /\ emitTasks = {}

\* The last symbol has been removed and the connection is not yet Closed.
PendingClose ==
    /\ current_subs = <<>>
    /\ \E s \in Sessions : pc[s] \in {"L185", "L186"} /\ cstate[client[s]] \in {"open", "closing"}

----------------------------------------------------------------------------
\* C1: once the commands of all (still connected) sessions have settled and
\* no vendor call has failed, the upstream active-symbol set and the set the
\* status endpoint reports both equal the union of the sessions' desired sets.
C1_UpstreamEqualsUnion ==
    (Settled /\ ~faulted /\ \A s \in Sessions : connected[s]) =>
        /\ UpstreamActive = UnionDesired
        /\ Range(get_subs.subs) = UnionDesired

\* C2: while another session holds the symbol, a session that holds it and
\* unsubscribes it causes no upstream unsubscribe (L166 -> L173 without an
\* exception), and the symbol is still in the aggregate set when the
\* unsubscribe is acknowledged (L173 -> L185).
C2_UnsubscribeOnlyByLastHolder ==
    [][\A s \in Sessions :
          (arg[s] \in desired[s] /\ \E r \in Sessions \ {s} : arg[s] \in desired[r]) =>
              /\ ~(pc[s] = "L166" /\ pc'[s] = "L173" /\ out'.reason # "raised")
              /\ (pc[s] = "L173" /\ pc'[s] = "L185") => arg[s] \in Range(current_subs')]_vars

\* C3: at every moment at most one upstream vendor connection is alive.
C3_AtMostOneConnection == Cardinality(LiveClients) <= 1

\* C4: once settled without vendor failure, an upstream connection exists iff
\* the aggregate symbol set is non-empty (so after the only session has
\* unsubscribed its only symbol the connection is Closed and the status
\* endpoint lists nothing).
C4_ConnectionIffSubscribed ==
    (Settled /\ ~faulted) => ((LiveClients # {}) <=> (get_subs.subs # <<>>))

\* C5: an upstream subscribe is never applied to a connection that has
\* already been closed.
C5_NoSubscribeOnClosed ==
    out.op = "up_subscribe" => cstate[out.client] # "closed"

\* C6: between the removal of the last symbol and the completion of the
\* close no upstream subscribe is issued.
C6_CloseBeforeSubscribe ==
    [][PendingClose => \A s \in Sessions : ~(pc[s] = "L135" /\ pc'[s] = "L138")]_vars

\* C7: a polygon_data event for a symbol is delivered only to sessions whose
\* desired set contains that symbol.
C7_FanOutOnlyToSubscribers ==
    out.op = "polygon_data" => \A s \in out.to : out.sym \in desired[s]

\* C8: when a session disconnects, every symbol that it alone holds leaves
\* the aggregate set and every live vendor connection.
C8_DisconnectReleases ==
    [][\A s \in Sessions : (connected[s] /\ ~connected'[s]) =>
          \A x \in desired[s] :
              (\A r \in Sessions \ {s} : x \notin desired[r]) =>
                  /\ x \notin Range(current_subs')
                  /\ \A c \in Clients : cstate'[c] = "open" => x \notin csubs'[c]]_vars

\* C9: when the upstream subscribe, or the opening of the connection, for a
\* symbol fails, the symbol is not in the aggregate set and the requesting
\* session holds no "subscribed" acknowledgement for it.
C9_FailedSubscribeLeavesNothing ==
    (out.reason = "raised" /\ out.op \in {"up_subscribe", "up_connect"}) =>
        /\ out.sym \notin Range(current_subs)
        /\ out.sym \notin desired[out.sid]

\* C10: a subscribe_one for a symbol its session already holds neither opens
\* a connection (L121) nor issues an upstream subscribe (L138 follows it).
C10_ResubscribeIsNoOp ==
    \A s \in Sessions : arg[s] \in desired[s] => pc[s] \notin {"L121", "L138"}


\* C11: An unsubscribe_one for a symbol the requesting session does not hold
\* is a no-op: the handler's steps issue no upstream unsubscribe and leave the
\* aggregate list current_subs as it was.
C11_ForeignUnsubscribeIsNoOp ==
    [][\A s \in Sessions :
          (pc[s] \in {"L166", "L173"} /\ pc'[s] # pc[s] /\ arg[s] \notin desired[s])
              => (out'.op # "up_unsubscribe" /\ current_subs' = current_subs)]_vars

\* C12: close() is called on the upstream connection only when the aggregate
\* list has just become empty, never again on a connection that is already
\* closing or closed.
C12_CloseOnlyOnLastRemoval ==
    [][\A s \in Sessions :
          (pc[s] = "L185" /\ pc'[s] = "L186")
              => (current_subs = <<>> /\ cstate[client[s]] \notin {"closing", "closed"})]_vars


\* C13: A "subscribed" acknowledgment goes to the requesting session only,
\* and it carries the reason "added to existing connection" exactly when the
\* command found an upstream connection that exists (a registered client
\* whose connection has not been closed); otherwise it carries no reason.
C13_SubscribedAckTellsConnection ==
    out.op = "subscribed" =>
        /\ out.to = {out.sid}
        /\ out.reason \in {"", "added to existing connection"}
        /\ (out.reason = "added to existing connection")
               <=> (out.client # None /\ cstate[out.client] # "closed")


\* C14 (as stated): every "unsubscribed" acknowledgment goes to the requester
\* only, lists the symbol of the command and has the reason "manual
\* unsubscribe", whatever the state of the upstream connection.
C14_AlwaysManualUnsubscribe ==
    out.op = "unsubscribed" =>
        /\ out.to = {out.sid}
        /\ out.sym \in Symbols
        /\ out.reason = "manual unsubscribe"

\* C14 (amended): every unsubscribe_one that finds a registered client runs
\* to its acknowledgment, whether the upstream unsubscribe returned or raised
\* and whatever the state of the connection, and the acknowledgment goes to
\* the requester only, lists the symbol of the command and has the reason
\* "manual unsubscribe"; an unsubscribe_one that finds no registered client
\* is acknowledged to the requester only, with no symbol and the reason
\* "no active client".
C14_UnsubscribeAcknowledged ==
    [][\A s \in Sessions :
          /\ (pc[s] = "idle" /\ pc'[s] = "L166")
                 => (ws_client # None /\ arg'[s] \in Symbols)
          /\ (pc[s] = "L166" /\ pc'[s] # "L166")
                 => (pc'[s] = "L173" /\ arg'[s] = arg[s] /\ client'[s] = client[s])
          /\ (pc[s] = "L173" /\ pc'[s] # "L173")
                 => out' = Call("unsubscribed", s, arg[s], client[s],
                                "manual unsubscribe", {s})
          /\ (pc[s] = "idle" /\ out'.op = "unsubscribed" /\ out'.sid = s)
                 => (ws_client = None
                     /\ out' = Call("unsubscribed", s, "", None, "no active client", {s}))
      ]_vars

\* C14 witness: an acknowledgment "manual unsubscribe" sent while the
\* connection of the registered client is already closed.
C14_AckOnClosedConnection ==
    /\ out.op = "unsubscribed"
    /\ out.reason = "manual unsubscribe"
    /\ out.client # None
    /\ cstate[out.client] = "closed"


----------------------------------------------------------------------------
\* FrontEnd/src/time_utils.py
\*
\* A raw timestamp is a Python int, which has no width.  A timestamp n >= 0
\* is held as <<hi, lo>> with n = hi * Radix + lo and 0 <= lo < Radix, so
\* that 10^12 and its neighbours can be compared and divided exactly.
\* Negative and non-integer raw values are not modelled.

Radix == 10^6

\* "ts is None" where a timestamp is expected.
NoTs == <<>>

\* n + d for a small integer d (d may be negative).
Plus(n, d) == <<n[1] + (n[2] + d) \div Radix, (n[2] + d) % Radix>>

\* 1000 * n
Times1000(n) == <<n[1] * 1000 + (n[2] * 1000) \div Radix, (n[2] * 1000) % Radix>>

\* a > b
Greater(a, b) == a[1] > b[1] \/ (a[1] = b[1] /\ a[2] > b[2])

\* The 1e12 of L10 and L16.
MsThreshold == <<10^6, 0>>

\* datetime.fromtimestamp accepts at most 9999-12-31T23:59:59 UTC, that is
\* 253402300799 seconds; beyond it raises ValueError ("year ... is out of
\* range").
MaxTimestamp == <<253402, 300799>>

\* What a call returns: None, an ISO-8601 text, or a ValueError.  The text
\* of datetime.isoformat() is the wall clock of the instant (sec seconds and
\* usec microseconds after the epoch) in the zone tz, with the zone's offset.
IsoNone == [kind |-> "None", tz |-> "", sec |-> <<0, 0>>, usec |-> 0]
IsoRaise == [kind |-> "ValueError", tz |-> "", sec |-> <<0, 0>>, usec |-> 0]
IsoText(tz, sec, usec) == [kind |-> "iso", tz |-> tz, sec |-> sec, usec |-> usec]

\* L10, L16 with ">=" in place of ">".  Not part of any specification.
ts_s_inclusive(ts) ==
    IF Greater(ts, MsThreshold) \/ ts = MsThreshold
    THEN [sec |-> <<ts[1] \div 1000, (ts[1] % 1000) * 1000 + ts[2] \div 1000>>,
          usec |-> (ts[2] % 1000) * 1000]
    ELSE [sec |-> ts, usec |-> 0]

\* L10, L16: ts_s = ts / 1000 if ts > 1e12 else ts.  The quotient is a float;
\* fromtimestamp rounds it to microseconds.
ts_s(ts) ==
    IF Greater(ts, MsThreshold)
    THEN [sec |-> <<ts[1] \div 1000, (ts[1] % 1000) * 1000 + ts[2] \div 1000>>,
          usec |-> (ts[2] % 1000) * 1000]
    ELSE [sec |-> ts, usec |-> 0]

\* L11, L17-18: datetime.fromtimestamp(ts_s, tz=timezone.utc), converted to
\* the zone tz, .isoformat()
fromtimestamp(t, tz) ==
    IF Greater(t.sec, MaxTimestamp) THEN IsoRaise ELSE IsoText(tz, t.sec, t.usec)

\* L7-11
to_iso_utc(ts) ==
    IF ts = NoTs THEN IsoNone ELSE fromtimestamp(ts_s(ts), "UTC")

\* L14-18, with ET_TZ of L4
to_iso_et(ts) ==
    IF ts = NoTs THEN IsoNone ELSE fromtimestamp(ts_s(ts), "America/New_York")

\* The raw values tried: every integer within TsSpread of 10^9, of
\* 1700000000, of the last second datetime accepts and of 10^12, each both
\* as it is and as the millisecond value 1000 * s + r.  The float quotient
\* resolves microseconds only below about 2^32 seconds, so r is 0 above.
TsSpread == 3
Anchors == {<<1000, 0>>, <<1700, 0>>, MaxTimestamp, MsThreshold}
SecondsSamples == {Plus(a, d) : a \in Anchors, d \in (0 - TsSpread)..TsSpread}
MsFractions(s) == IF Greater(<<4294, 967296>>, s) THEN {0, 1, 999} ELSE {0}

Unset == [kind |-> "unset", tz |-> "", sec |-> <<0, 0>>, usec |-> 0]
Called(a, b) ==
    [pc |-> "called", raw_s |-> a, raw_ms |-> b,
     utc |-> [k \in {"s", "ms"} |-> Unset], et |-> [k \in {"s", "ms"} |-> Unset]]
TuInputs ==
    {Called(NoTs, NoTs)}
        \cup {Called(s, Plus(Times1000(s), r)) : s \in SecondsSamples, r \in {0}}
        \cup {Called(s, Plus(Times1000(s), r)) :
                  s \in {x \in SecondsSamples : 999 \in MsFractions(x)}, r \in {1, 999}}

Raw(k) == IF k = "s" THEN tu.raw_s ELSE tu.raw_ms

\* One call of to_iso_utc on one of the two raw values.
ToIsoUtc(k) ==
    /\ tu.pc = "called"
    /\ tu.utc[k] = Unset
    /\ tu' = [tu EXCEPT !.utc[k] = to_iso_utc(Raw(k))]
    /\ UNCHANGED notTu

\* One call of to_iso_et on one of the two raw values.
ToIsoEt(k) ==
    /\ tu.pc = "called"
    /\ tu.et[k] = Unset
    /\ tu' = [tu EXCEPT !.et[k] = to_iso_et(Raw(k))]
    /\ UNCHANGED notTu

TimeInit == RelayInit /\ tu \in TuInputs /\ hm = NotCalled /\ bf = NotCalled

TimeNext ==
    \/ \E k \in {"s", "ms"} : ToIsoUtc(k)
    \/ \E k \in {"s", "ms"} : ToIsoEt(k)

TimeSpec == TimeInit /\ [][TimeNext]_vars


\* Vocabulary of the time_utils properties
TuDone == tu.pc = "called" /\ \A k \in {"s", "ms"} : tu.utc[k] # Unset /\ tu.et[k] # Unset
TuResults == UNION {{<<Raw(k), tu.utc[k]>>, <<Raw(k), tu.et[k]>>} : k \in {"s", "ms"}}
SameInstant == tu.utc["ms"] = tu.utc["s"] /\ tu.et["ms"] = tu.et["s"]
\* raw_ms is exactly 1000 * raw_s, and raw_s lies in lo < s <= hi
ThousandFold(lo, hi) ==
    /\ tu.raw_s # NoTs
    /\ tu.raw_ms = Times1000(tu.raw_s)
    /\ Greater(tu.raw_s, lo)
    /\ ~Greater(tu.raw_s, hi)

\* C15 (as stated): for every integer s with 10^9 < s <= 10^12, the raw
\* values 1000 * s and s normalize to the identical instant in to_iso_utc and
\* in to_iso_et.
C15_SameInstantUpToThreshold ==
    (TuDone /\ ThousandFold(<<1000, 0>>, MsThreshold)) =>
        /\ SameInstant
        /\ tu.utc["s"].kind = "iso"
        /\ tu.et["s"].kind = "iso"

\* C15 (amended): a raw value strictly greater than 10^12 is read as
\* milliseconds and any value up to and including 10^12 as seconds; a call
\* raises ValueError exactly when the instant read lies after the last second
\* datetime can represent (253402300799); for every integer s with
\* 10^9 < s <= 253402300799 the raw values 1000 * s and s give the identical
\* instant in to_iso_utc and in to_iso_et, for 253402300799 < s <= 10^12 both
\* raise in both functions; None gives None.
C15_TimestampNormalization ==
    TuDone =>
        /\ tu.raw_s = NoTs => \A p \in TuResults : p[2] = IsoNone
        /\ tu.raw_s # NoTs => \A p \in TuResults :
              /\ p[2].kind \in {"iso", "ValueError"}
              /\ IF Greater(p[1], MsThreshold)
                 THEN /\ p[2].kind = "ValueError"
                          <=> Greater(p[1], Plus(Times1000(MaxTimestamp), 999))
                      /\ p[2].kind = "iso"
                          => Plus(Times1000(p[2].sec), p[2].usec \div 1000) = p[1]
                             /\ p[2].usec % 1000 = 0
                 ELSE /\ p[2].kind = "ValueError" <=> Greater(p[1], MaxTimestamp)
                      /\ p[2].kind = "iso" => (p[2].sec = p[1] /\ p[2].usec = 0)
        /\ \A k \in {"s", "ms"} :
              /\ tu.utc[k].kind = "iso" => tu.utc[k].tz = "UTC"
              /\ tu.et[k].kind = "iso"
                     => (tu.et[k].tz = "America/New_York"
                         /\ tu.et[k].sec = tu.utc[k].sec /\ tu.et[k].usec = tu.utc[k].usec)
        /\ ThousandFold(<<1000, 0>>, MaxTimestamp)
               => (SameInstant /\ tu.utc["s"].kind = "iso" /\ tu.et["s"].kind = "iso")
        /\ ThousandFold(MaxTimestamp, MsThreshold)
               => \A p \in TuResults : p[2] = IsoRaise

\* C15 witness: 1700000000 and 1700000000000 have both been converted by
\* both functions, to the same texts.
C15_SecondsAndMillisAgree ==
    /\ TuDone
    /\ tu.raw_s = <<1700, 0>>
    /\ tu.raw_ms = <<1700000, 0>>
    /\ SameInstant
    /\ tu.utc["ms"] = IsoText("UTC", <<1700, 0>>, 0)


----------------------------------------------------------------------------
\* handle_msg (application.py L47-88), message by message
\*
\* A vendor message is a function from the names of the attributes it has
\* to their values.  An attribute value is None (<<>>), a timestamp (its two
\* limbs) or any other value v, held as <<v>>.

\* The messages in one batch, and the batches received.
MaxBatch == 2
MaxBatches == 2

PyNone == NoTs
NoAttrs == [a \in {} |-> PyNone]

\* getattr(m, a, d)
getattr(m, a, d) == IF a \in DOMAIN m THEN m[a] ELSE d

\* The timestamps that occur in messages: a trade time and the end of a
\* minute bar in milliseconds, the start of that bar, and a value in seconds
\* that datetime cannot represent.
TsTrade == <<1700000, 60123>>
TsBarStart == <<1700000, 60000>>
TsBarEnd == <<1700000, 120000>>
TsFar == Plus(MaxTimestamp, 1)

\* The messages tried: every combination of the parts below.
EvParts == {NoAttrs, "event_type" :> <<"AM">>, "event_type" :> <<"T">>}
NameParts ==
    {NoAttrs, "symbol" :> <<"AAPL">>, "ticker" :> <<"MSFT">>,
     ("symbol" :> <<"AAPL">>) @@ ("ticker" :> <<"MSFT">>)}
TsParts == {NoAttrs} \cup {"timestamp" :> v : v \in {PyNone, TsTrade, TsFar}}
EndParts == {NoAttrs} \cup {"end_timestamp" :> v : v \in {PyNone, TsBarEnd, TsFar}}
BarParts ==
    {NoAttrs,
     ("open" :> <<101>>) @@ ("close" :> <<102>>),
     [a \in {"volume", "accumulated_volume", "official_open_price", "vwap", "open",
             "close", "high", "low", "aggregate_vwap", "average_size",
             "start_timestamp", "otc"} |->
         CASE a = "start_timestamp" -> TsBarStart
           [] a = "otc" -> <<TRUE>>
           [] a = "average_size" -> PyNone
           [] OTHER -> <<100>>]}
Msgs ==
    {a @@ b @@ c @@ d @@ e :
        a \in EvParts, b \in NameParts, c \in TsParts, d \in EndParts, e \in BarParts}

\* L52-55
MsgEv(m) == getattr(m, "event_type", PyNone)
MsgSym(m) == getattr(m, "symbol", getattr(m, "ticker", PyNone))
MsgTs(m) == getattr(m, "timestamp", getattr(m, "end_timestamp", PyNone))

\* L57-63
BaseData(m) ==
    [ev |-> MsgEv(m), sym |-> MsgSym(m), t |-> MsgTs(m),
     t_utc |-> to_iso_utc(MsgTs(m)), t_et |-> to_iso_et(MsgTs(m))]

\* L67-85: the argument of data.update
BarData(m) ==
    [v |-> getattr(m, "volume", PyNone),
     av |-> getattr(m, "accumulated_volume", PyNone),
     op |-> getattr(m, "official_open_price", PyNone),
     vw |-> getattr(m, "vwap", PyNone),
     o |-> getattr(m, "open", PyNone),
     c |-> getattr(m, "close", PyNone),
     h |-> getattr(m, "high", PyNone),
     l |-> getattr(m, "low", PyNone),
     a |-> getattr(m, "aggregate_vwap", PyNone),
     z |-> getattr(m, "average_size", PyNone),
     s |-> getattr(m, "start_timestamp", PyNone),
     e |-> getattr(m, "end_timestamp", PyNone),
     otc |-> getattr(m, "otc", <<FALSE>>)]

\* L57-85 without the test of L66: the bar fields on every event.  Not part
\* of any specification.
DataWithBarAlways(m) == BarData(m) @@ BaseData(m)

\* L57-85: the dict handed to the emit task
Data(m) == IF MsgEv(m) = <<"AM">> THEN BarData(m) @@ BaseData(m) ELSE BaseData(m)

\* L60-61: to_iso_utc / to_iso_et raise, and the exception leaves handle_msg.
Raises(m) == to_iso_utc(MsgTs(m)) = IsoRaise \/ to_iso_et(MsgTs(m)) = IsoRaise

NoMsg == [none |-> PyNone]
Receiving(b, tasks) ==
    [pc |-> "recv", b |-> b, n |-> 0, i |-> 0, m |-> NoMsg, data |-> NoMsg,
     started |-> <<>>, tasks |-> tasks]

\* ws.run has a batch of n messages and calls handle_msg(msgs).
HandleMsgCall(n) ==
    /\ hm.pc = "recv"
    /\ hm.b < MaxBatches
    /\ hm' = [Receiving(hm.b + 1, hm.tasks) EXCEPT !.pc = "L50", !.n = n]
    /\ UNCHANGED notHm

\* L50: the for loop takes the next message m of the batch.
HandleMsgTake(m) ==
    /\ hm.pc = "L50"
    /\ hm.i < hm.n
    /\ hm' = [hm EXCEPT !.pc = "L52", !.i = @ + 1, !.m = m, !.data = NoMsg]
    /\ UNCHANGED notHm

\* L52-88 as they would be if the emit were awaited in place: the pass ends
\* only when no earlier emit is outstanding.  Not part of any specification.
HandleMsgEventAwaiting ==
    /\ hm.pc = "L52"
    /\ hm.tasks = 0
    /\ ~Raises(hm.m)
    /\ hm' = [hm EXCEPT !.pc = "L50", !.data = Data(hm.m),
                        !.started = Append(@, hm.i), !.tasks = @ + 1]
    /\ UNCHANGED notHm

\* L52-88: the dict is built, L88 starts the background task and the loop
\* goes on.
HandleMsgEvent ==
    /\ hm.pc = "L52"
    /\ ~Raises(hm.m)
    /\ hm' = [hm EXCEPT !.pc = "L50", !.data = Data(hm.m),
                        !.started = Append(@, hm.i), !.tasks = @ + 1]
    /\ UNCHANGED notHm

\* L52-61: building the dict raises: no task is started for m, the rest of
\* the batch is not processed.
HandleMsgRaise ==
    /\ hm.pc = "L52"
    /\ Raises(hm.m)
    /\ hm' = [hm EXCEPT !.pc = "raised"]
    /\ UNCHANGED notHm

\* L50: the batch is exhausted; handle_msg returns to ws.run.
HandleMsgReturn ==
    /\ hm.pc = "L50"
    /\ hm.i = hm.n
    /\ hm' = [hm EXCEPT !.pc = "recv"]
    /\ UNCHANGED notHm

\* L31-33: the emit of one background task completes.
EmitDone ==
    /\ hm.pc # "none"
    /\ hm.tasks > 0
    /\ hm' = [hm EXCEPT !.tasks = @ - 1]
    /\ UNCHANGED notHm

IngestInit == RelayInit /\ hm = Receiving(0, 0) /\ tu = NotCalled /\ bf = NotCalled

IngestNext ==
    \/ \E n \in 0..MaxBatch : HandleMsgCall(n)
    \/ \E m \in Msgs : HandleMsgTake(m)
    \/ HandleMsgEvent
    \/ HandleMsgRaise
    \/ HandleMsgReturn
    \/ EmitDone

IngestSpec == IngestInit /\ [][IngestNext]_vars

\* The same loop over fewer messages (what a message holds besides its
\* timestamp does not matter to when handle_msg goes on), with the
\* scheduling of the code: handle_msg is straight-line code on a running
\* thread, so it goes on while it can.  Nothing is assumed about when an
\* emit completes or a batch arrives.
FewMsgs == {a @@ c : a \in EvParts, c \in TsParts}

HandleMsgStep ==
    \/ \E m \in FewMsgs : HandleMsgTake(m)
    \/ HandleMsgEvent
    \/ HandleMsgRaise
    \/ HandleMsgReturn

IngestLiveNext ==
    \/ \E n \in 0..MaxBatch : HandleMsgCall(n)
    \/ HandleMsgStep
    \/ EmitDone

IngestLiveSpec == IngestInit /\ [][IngestLiveNext]_vars /\ WF_vars(HandleMsgStep)

\* Vocabulary of the handle_msg properties
HasEvent == hm.pc # "none" /\ hm.data # NoMsg
InBatch == hm.pc \in {"L50", "L52"}
BaseKeys == {"ev", "sym", "t", "t_utc", "t_et"}
BarKeys == {"v", "av", "op", "vw", "o", "c", "h", "l", "a", "z", "s", "e", "otc"}
\* The attribute each key of the event is read from, where it is one.
AttrOf ==
    [k \in (BarKeys \cup {"ev"}) |->
        CASE k = "ev" -> "event_type"
          [] k = "v" -> "volume"
          [] k = "av" -> "accumulated_volume"
          [] k = "op" -> "official_open_price"
          [] k = "vw" -> "vwap"
          [] k = "o" -> "open"
          [] k = "c" -> "close"
          [] k = "h" -> "high"
          [] k = "l" -> "low"
          [] k = "a" -> "aggregate_vwap"
          [] k = "z" -> "average_size"
          [] k = "s" -> "start_timestamp"
          [] k = "e" -> "end_timestamp"
          [] OTHER -> "otc"]
\* A present timestamp that datetime cannot represent.
BadTimestamp(m, a) == a \in DOMAIN m /\ m[a] # PyNone /\ Greater(m[a], MaxTimestamp)

\* C16: The timestamp of the event (t, t_utc, t_et) is the window end time
\* end_timestamp for every "AM" message and the message's own timestamp for
\* every other kind, whichever of the two attributes are present, absent or
\* None (an absent attribute reads as None).  Stated for the messages that
\* have an event kind.
C16_TimestampByKind ==
    (HasEvent /\ "event_type" \in DOMAIN hm.m) =>
        LET chosen == IF MsgEv(hm.m) = <<"AM">>
                      THEN getattr(hm.m, "end_timestamp", PyNone)
                      ELSE getattr(hm.m, "timestamp", PyNone)
        IN /\ hm.data.t = chosen
           /\ hm.data.t_utc = to_iso_utc(chosen)
           /\ hm.data.t_et = to_iso_et(chosen)

\* C17: handle_msg starts exactly one event per message, in batch order,
\* whichever attributes are missing: a missing attribute gives an explicit
\* empty value (None, False for otc) in the event, the loop is left early
\* only for a present timestamp that cannot be converted, never for a missing
\* attribute, and the bar fields are in the event exactly when ev == "AM".
C17_OneEventPerMessage ==
    /\ hm.pc \in {"L50", "recv"} =>
          /\ hm.started = [j \in 1..hm.i |-> j]
          /\ hm.pc = "recv" => hm.i = hm.n
    /\ hm.pc \in {"L52", "raised"} => hm.started = [j \in 1..(hm.i - 1) |-> j]
    /\ hm.pc = "raised" =>
          /\ BadTimestamp(hm.m, "timestamp") \/ BadTimestamp(hm.m, "end_timestamp")
    /\ HasEvent =>
          /\ DOMAIN hm.data =
                 BaseKeys \cup (IF hm.data.ev = <<"AM">> THEN BarKeys ELSE {})
          /\ \A k \in DOMAIN hm.data \ {"sym", "t", "t_utc", "t_et"} :
                 hm.data[k] = IF AttrOf[k] \in DOMAIN hm.m THEN hm.m[AttrOf[k]]
                              ELSE IF k = "otc" THEN <<FALSE>> ELSE PyNone
          /\ ({"symbol", "ticker"} \cap DOMAIN hm.m = {}) => hm.data.sym = PyNone
          /\ ({"timestamp", "end_timestamp"} \cap DOMAIN hm.m = {})
                 => (hm.data.t = PyNone /\ hm.data.t_utc = IsoNone
                     /\ hm.data.t_et = IsoNone)

\* C17 witness: the second message of a batch has no attribute at all, and
\* its event has been started after the event of the first.
C17_EmptyMessageNormalized ==
    /\ hm.pc = "L50"
    /\ hm.i = 2
    /\ DOMAIN hm.m = {}
    /\ hm.started = <<1, 2>>
    /\ hm.data = [ev |-> PyNone, sym |-> PyNone, t |-> PyNone,
                  t_utc |-> IsoNone, t_et |-> IsoNone]

\* C18: handle_msg never waits for an emit: a batch that is being processed
\* is always left (returned from, or abandoned by an exception), whether or
\* not any emit task ever completes.
C18_BatchAlwaysCompletes == InBatch ~> ~InBatch

\* C18 witness: the second batch has been processed and returned from while
\* every emit task of both batches is still outstanding.
C18_ReturnedWithAllEmitsPending ==
    /\ hm.pc = "recv"
    /\ hm.b = 2
    /\ hm.n > 0
    /\ hm.tasks > hm.n


\* C19: Once nothing is in flight, every symbol that was acknowledged as
\* "subscribed" and not unsubscribed since is subscribed on the one live
\* upstream connection and is in the aggregate list the status endpoint
\* reports, also when its subscribe came while the connection of an earlier
\* subscribe was still being established.  (Stated for runs without vendor
\* failures and without disconnects.)
C19_AckedSymbolsReachUpstream ==
    (Settled /\ ~faulted /\ \A s \in Sessions : connected[s]) =>
        \A s \in Sessions : \A x \in desired[s] :
            /\ Cardinality(LiveClients) = 1
            /\ x \in UpstreamActive
            /\ x \in Range(get_subs.subs)


----------------------------------------------------------------------------
\* backfill_dates (MagikarpCDK/scripts/backfill-missing-data.py L212-278)
\*
\* bf holds the parameters and locals of one run: dates is dates_to_backfill,
\* n is len(sorted_dates), i and date are the variables of the for loop, and
\* the position pc is the source line run next.  A date string 'YYYY-MM-DD' is
\* the triple <<year, month, day>> of its three fixed-width fields.  History
\* fields: key_used and streak describe the invocations made so far (the key
\* index of the last one, and how many invocations in a row used it), rested
\* tells that the long break was taken since the last invocation, breaks
\* counts the long breaks and slept is the length of the last sleep.

\* L38-41
API_KEY_COUNT == 5
REQUESTS_PER_KEY == 100
BREAK_DURATION_SECONDS == 10 * 60
DELAY_BETWEEN_REQUESTS == 2

\* The lengths of dates_to_backfill tried, up to MaxDates.
MaxDates == 501
DateCounts ==
    {0, 1, 2, REQUESTS_PER_KEY, REQUESTS_PER_KEY + 1,
     API_KEY_COUNT * REQUESTS_PER_KEY, MaxDates}

\* L95: strftime('%Y-%m-%d') of the k-th day of a run of days that starts on
\* 2000-01-01 and takes the first 28 days of every month.
Day(k) ==
    <<2000 + ((k - 1) \div 336), (((k - 1) \div 28) % 12) + 1, ((k - 1) % 28) + 1>>

Calendar(n) == {Day(k) : k \in 1..n}

\* Dates whose order by day, by month and by year disagree.
SomeDates == {<<1999, 12, 31>>, <<2000, 1, 30>>, <<2000, 2, 9>>, <<2001, 1, 1>>}

\* The values of dates_to_backfill tried: every set of SomeDates, and the
\* first n days of the calendar for the lengths of DateCounts.
DateSets == (SUBSET SomeDates) \cup {Calendar(n) : n \in DateCounts}

\* The order of strings written day first.  Not part of any specification.
StrLessDayFirst(a, b) ==
    \/ a[3] < b[3]
    \/ a[3] = b[3] /\ a[2] < b[2]
    \/ a[3] = b[3] /\ a[2] = b[2] /\ a[1] < b[1]

\* Python's < on two date strings: the first differing character decides,
\* which for fields of fixed width is the first differing field.
StrLess(a, b) ==
    \/ a[1] < b[1]
    \/ a[1] = b[1] /\ a[2] < b[2]
    \/ a[1] = b[1] /\ a[2] = b[2] /\ a[3] < b[3]

\* L221: sorted(dates_to_backfill): the list of the elements, smallest first:
\* the middle element, after the sorted smaller ones and before the sorted
\* larger ones.
RECURSIVE sorted(_)
sorted(S) ==
    IF S = {} THEN <<>>
    ELSE CHOOSE list \in
             {sorted({e \in S : StrLess(e, x)}) \o <<x>>
                  \o sorted({e \in S : StrLess(x, e)}) :
              x \in {m \in S : Cardinality({e \in S : StrLess(e, m)})
                                  = Cardinality(S) \div 2}} : TRUE

\* L212: backfill_dates(lambda_client, function_name, dates_to_backfill, dry_run)
BackfillCalled(dates, dry_run) ==
    [pc |-> "L216", dates |-> dates, n |-> Cardinality(dates),
     dry_run |-> dry_run, sorted_dates |-> <<>>, i |-> 0, date |-> <<>>,
     current_api_key |-> 0, requests_with_current_key |-> 0,
     total_success |-> 0, total_failure |-> 0,
     key_used |-> 0, streak |-> 0, rested |-> FALSE, breaks |-> 0, slept |-> 0]

\* L216-218: dry run: nothing is invoked.
DryRunReturn ==
    /\ bf.pc = "L216"
    /\ bf.dry_run
    /\ bf' = [bf EXCEPT !.pc = "done"]
    /\ UNCHANGED notBf

\* L221-226
StartLoop ==
    /\ bf.pc = "L216"
    /\ ~bf.dry_run
    /\ bf' = [bf EXCEPT !.pc = "L228", !.sorted_dates = sorted(bf.dates),
                        !.current_api_key = 1,
                        !.requests_with_current_key = 0]
    /\ UNCHANGED notBf

\* L228-243: invoke_lambda(..., date, current_api_key) for the next date,
\* which reports success or failure and never raises (L186-210); the totals
\* and the per-key counter are updated.
Invoke(success) ==
    /\ bf.pc = "L228"
    /\ bf.i < bf.n
    /\ bf' = [bf EXCEPT
                 !.pc = "L246",
                 !.date = bf.sorted_dates[bf.i + 1],
                 !.total_success = IF success THEN @ + 1 ELSE @,
                 !.total_failure = IF success THEN @ ELSE @ + 1,
                 !.requests_with_current_key = @ + 1,
                 !.key_used = bf.current_api_key,
                 !.streak = IF bf.key_used = bf.current_api_key THEN @ + 1 ELSE 1,
                 !.rested = FALSE,
                 !.slept = 0]
    /\ UNCHANGED notBf

\* L246 with ">" in place of ">=".  Not part of any specification.
KeySpentLate(count) == count > REQUESTS_PER_KEY

\* L246: requests_with_current_key >= REQUESTS_PER_KEY
KeySpent(count) == count >= REQUESTS_PER_KEY

\* L246 false: the key is kept.
KeepKey ==
    /\ bf.pc = "L246"
    /\ ~KeySpent(bf.requests_with_current_key)
    /\ bf' = [bf EXCEPT !.pc = "L269"]
    /\ UNCHANGED notBf

\* L250-266, L252 false: the next key, counter back to 0.
RotateKey ==
    /\ bf.pc = "L246"
    /\ KeySpent(bf.requests_with_current_key)
    /\ bf.current_api_key + 1 <= API_KEY_COUNT
    /\ bf' = [bf EXCEPT !.pc = "L269", !.current_api_key = @ + 1,
                        !.requests_with_current_key = 0]
    /\ UNCHANGED notBf

\* L250-266, L252 true: all keys are spent: sleep BREAK_DURATION_SECONDS,
\* then key 1 again, counter back to 0.
TakeBreak ==
    /\ bf.pc = "L246"
    /\ KeySpent(bf.requests_with_current_key)
    /\ bf.current_api_key + 1 > API_KEY_COUNT
    /\ bf' = [bf EXCEPT !.pc = "L269", !.current_api_key = 1,
                        !.requests_with_current_key = 0,
                        !.rested = TRUE, !.breaks = @ + 1,
                        !.slept = BREAK_DURATION_SECONDS]
    /\ UNCHANGED notBf

\* L269-270: a further date follows: sleep DELAY_BETWEEN_REQUESTS.
Delay ==
    /\ bf.pc = "L269"
    /\ bf.i < bf.n - 1
    /\ bf' = [bf EXCEPT !.pc = "L228", !.i = @ + 1, !.slept = DELAY_BETWEEN_REQUESTS]
    /\ UNCHANGED notBf

\* L269 false: this was the last date.
NoDelay ==
    /\ bf.pc = "L269"
    /\ ~(bf.i < bf.n - 1)
    /\ bf' = [bf EXCEPT !.pc = "L228", !.i = @ + 1]
    /\ UNCHANGED notBf

\* L272-278: the loop is over; the summary is printed.
Finish ==
    /\ bf.pc = "L228"
    /\ bf.i = bf.n
    /\ bf.n # 0
    /\ bf' = [bf EXCEPT !.pc = "done"]
    /\ UNCHANGED notBf

\* L278 with an empty sorted_dates: total_success / len(sorted_dates) raises
\* ZeroDivisionError.
FinishRaise ==
    /\ bf.pc = "L228"
    /\ bf.i = bf.n
    /\ bf.n = 0
    /\ bf' = [bf EXCEPT !.pc = "raised"]
    /\ UNCHANGED notBf

BackfillInit ==
    /\ RelayInit
    /\ tu = NotCalled
    /\ hm = NotCalled
    /\ bf \in {BackfillCalled(dates, d) : dates \in DateSets, d \in BOOLEAN}

BackfillNext ==
    \/ DryRunReturn
    \/ StartLoop
    \/ \E success \in BOOLEAN : Invoke(success)
    \/ KeepKey
    \/ RotateKey
    \/ TakeBreak
    \/ Delay
    \/ NoDelay
    \/ Finish
    \/ FinishRaise

BackfillSpec == BackfillInit /\ [][BackfillNext]_vars


\* C20: In backfill_dates every invocation uses a key index in
\* 1..API_KEY_COUNT; the keys are used in the cyclic order 1,2,...,5,1,...,
\* starting with 1, and a key is left only after REQUESTS_PER_KEY requests in
\* a row, never used for more; the long break is taken exactly when the last
\* key has had its REQUESTS_PER_KEY requests, it lasts BREAK_DURATION_SECONDS,
\* and after it the rotation restarts at key 1 with the per-key counter 0.
C20_KeyRotation ==
    [][/\ (bf.pc = "L228" /\ bf'.pc = "L246") =>
              /\ bf'.key_used = bf.current_api_key
              /\ bf'.key_used \in 1..API_KEY_COUNT
              /\ bf'.streak \in 1..REQUESTS_PER_KEY
              /\ bf'.requests_with_current_key = bf'.streak
              /\ IF bf.key_used = 0 THEN bf'.key_used = 1
                 ELSE \/ bf'.key_used = bf.key_used
                      \/ /\ bf'.key_used = (bf.key_used % API_KEY_COUNT) + 1
                         /\ bf.streak = REQUESTS_PER_KEY
                         /\ bf.rested <=> bf.key_used = API_KEY_COUNT
       /\ (bf.pc = "L246" /\ bf'.pc # "L246") =>
              /\ (bf'.breaks # bf.breaks \/ bf'.slept # bf.slept \/ bf'.rested)
                     <=> (bf.key_used = API_KEY_COUNT /\ bf.streak = REQUESTS_PER_KEY)
              /\ bf'.rested =>
                     /\ bf'.breaks = bf.breaks + 1
                     /\ bf'.slept = 600
                     /\ bf'.current_api_key = 1
                     /\ bf'.requests_with_current_key = 0
              /\ bf.streak = REQUESTS_PER_KEY => bf'.requests_with_current_key = 0
      ]_vars

\* C20 witness: the first invocation after the long break has been made,
\* with key 1.
C20_ResumedAfterBreak ==
    /\ bf.pc = "L246"
    /\ bf.breaks = 1
    /\ bf.i = API_KEY_COUNT * REQUESTS_PER_KEY
    /\ bf.key_used = 1
    /\ bf.streak = 1


\* C21: The aggregate list current_subs never holds the same symbol twice.
C21_NoDuplicateSubscription ==
    \A i, j \in 1..Len(current_subs) :
        current_subs[i] = current_subs[j] => i = j


\* C22: When a client is registered, unsubscribe_one always leaves the
\* aggregate list without the symbol and sends the "unsubscribed"
\* acknowledgment, whether the upstream unsubscribe returned or raised.
C22_UnsubscribeAlwaysRemoves ==
    [][\A s \in Sessions :
          (pc[s] = "L173" /\ pc'[s] = "L185")
              => /\ arg[s] \notin Range(current_subs')
                 /\ out'.op = "unsubscribed"
                 /\ out'.sym = arg[s]]_vars

\* Vocabulary of C23 and C24.
\* The run is over: it returned, or it raised at L278.
BackfillOver == bf.pc \in {"done", "raised"}
\* The number of invoke_lambda calls made so far.
Invocations == bf.total_success + bf.total_failure
\* A step that calls invoke_lambda.
Invoking == bf.pc = "L228" /\ bf'.pc = "L246"
\* A number that grows with the calendar day of a date.
Ordinal(d) == (d[1] * 12 + d[2]) * 31 + d[3]
\* An upper bound of the number of steps the run still takes.
StepsLeft ==
    CASE BackfillOver -> 0
      [] bf.pc = "L216" -> 3 * bf.n + 2
      [] bf.pc = "L228" -> 3 * (bf.n - bf.i) + 1
      [] bf.pc = "L246" -> 3 * (bf.n - bf.i)
      [] bf.pc = "L269" -> 3 * (bf.n - bf.i) - 1

\* C23: backfill_dates terminates for every finite set of dates: it is never
\* stuck before it is over and every step brings the end nearer.  When it is
\* not a dry run it calls invoke_lambda once per date, each time with a date
\* of the set that is later in the calendar than the one before, whatever
\* the outcome of the earlier calls, and when it returns total_success +
\* total_failure is the number of dates.  A dry run calls nothing.  (For the
\* empty set the run ends by the ZeroDivisionError of L278, after no call.)
C23_OncePerDateAscending ==
    /\ [](~BackfillOver => ENABLED BackfillNext)
    /\ [](BackfillOver =>
             /\ Invocations = (IF bf.dry_run THEN 0 ELSE Cardinality(bf.dates))
             /\ bf.pc = "raised" => bf.dates = {})
    /\ [][/\ StepsLeft' < StepsLeft
          /\ Invocations' = Invocations + (IF Invoking THEN 1 ELSE 0)
          /\ bf'.dates = bf.dates
          /\ Invoking =>
                 /\ ~bf.dry_run
                 /\ bf'.date \in bf.dates
                 /\ bf.date # <<>> => Ordinal(bf.date) < Ordinal(bf'.date)
          /\ ~Invoking => bf'.date = bf.date]_vars

\* C23 witness: a run over the four dates of SomeDates has returned; some
\* invocation failed and a later one succeeded.
C23_FinishedDespiteFailure ==
    /\ bf.pc = "done"
    /\ ~bf.dry_run
    /\ bf.dates = SomeDates
    /\ bf.date = <<2001, 1, 1>>
    /\ bf.total_failure = 3
    /\ bf.total_success = 1

\* A step that waits: time.sleep at L258 or at L270.
Sleeps == bf'.slept # bf.slept /\ bf'.slept # 0

\* C24: backfill_dates waits only while a date remains to be processed:
\* after the invocation for the last date neither the delay between requests
\* nor the break for spent keys is taken, also when the number of dates is a
\* multiple of API_KEY_COUNT * REQUESTS_PER_KEY.
C24_NoWaitAfterLastDate ==
    [][Sleeps => bf.i < bf.n - 1]_vars

====
